---- MODULE Spec2Model ----
(***************************************************************************)
(* State-machine model of the HomeFlow Tasks view (React component) and    *)
(* of the backend it talks to.  Three revisions of the view are modelled   *)
(* side by side, selected by the variable ver:                             *)
(*   V1  src/src/pages/Tasks.tsx:80    (getCurrentUserSafe, refresh)       *)
(*   V3  src/unnamed/part_003:57       (hasLoadedData)                     *)
(*   V4  src/unnamed/part_003:754      (withTimeout, initInFlightRef)      *)
(* Every asynchronous handler is a continuation kept in a slot of ops; an  *)
(* action is one run of the JavaScript event loop from one await (or user  *)
(* gesture) to the next await, including the effects React runs after it.  *)
(***************************************************************************)
EXTENDS Integers, Sequences, FiniteSets, TLC

\* ---------------------------------------------------------------- bounds
MaxOps == 2          \* continuations that can be in flight together
MaxGestures == 2     \* user / environment events per run
MaxId == 4           \* highest task id the backend hands out
MaxMounts == 2       \* runs of the auth effect (StrictMode runs it twice)
MaxAuthEvents == 2   \* session changes signalled by the auth provider

\* ------------------------------------------------------------- constants
NULL == "null"
Versions == {"V1", "V3", "V4"}
Households == {"H1", "H2"}
Users == {"U1"}
Filters == {"all", "pending", "completed"}
Statuses == {"pending", "in_progress", "completed"}
Slots == 1..MaxOps

\* members row of the signed-in user: members.household_id / households(id)
MemberHousehold(u) == "H1"

\* ----------------------------------------------------------------- tasks
NoTask == [id |-> 0, household_id |-> NULL, status |-> "pending",
           completed_at |-> NULL, assigned_to |-> NULL, created_at |-> 0]

Row(i, h, st, ca, asg, ts) ==
  [id |-> i, household_id |-> h, status |-> st, completed_at |-> ca,
   assigned_to |-> asg, created_at |-> ts]

\* backend contents before the view is opened; the second row is either
\* in progress or already completed (completed_at written with the status)
InitialDb(st2) ==
  { Row(1, "H1", "pending", NULL, "U1", 2),
    Row(2, "H1", st2, IF st2 = "completed" THEN "t0" ELSE NULL, NULL, 1),
    Row(3, "H2", "pending", NULL, NULL, 3) }

\* a household that has no task yet
NewHouseholdDb == { Row(3, "H2", "pending", NULL, NULL, 3) }

InitialDbs == {InitialDb("in_progress"), InitialDb("completed"), NewHouseholdDb}

Ids(seq) == {seq[i].id : i \in 1..Len(seq)}

RECURSIVE SortDesc(_)
\* .order('created_at', { ascending: false })
SortDesc(S) ==
  IF S = {} THEN <<>>
  ELSE LET top == CHOOSE t \in S : \A u \in S : u.created_at <= t.created_at
       IN <<top>> \o SortDesc(S \ {top})

\* mutant of StatusPredicate: the pending filter forgets in_progress
StatusPredicate_Mutant(st, f) ==
  CASE f = "pending" -> st = "pending"
    [] f = "completed" -> st = "completed"
    [] OTHER -> TRUE

\* the predicates loadTasksForHousehold adds to the query
StatusPredicate(st, f) ==
  CASE f = "pending" -> st \in {"pending", "in_progress"}
    [] f = "completed" -> st = "completed"
    [] OTHER -> TRUE

QueryTasks(rows, hh, f, m) ==
  SortDesc({t \in rows : /\ t.household_id = hh
                         /\ StatusPredicate(t.status, f)
                         /\ (m # NULL => t.assigned_to = m)})

\* current.map(t => t.id === id ? patch(t) : t); patched[i] is patch(seq[i])
MapTask(seq, id, patched) ==
  [i \in 1..Len(seq) |-> IF seq[i].id = id THEN patched[i] ELSE seq[i]]

\* current.filter(t => t.id !== id)
RemoveTask(seq, id) == SelectSeq(seq, LAMBDA t : t.id # id)

\* -------------------------------------------------------- continuations
\* served / data: the backend has run the query of a read and its response
\* is on its way
Idle == [kind |-> "idle", pc |-> "", hh |-> NULL, filter |-> "all",
         mf |-> NULL, prev |-> <<>>, task |-> NoTask,
         served |-> FALSE, data |-> <<>>]

FreeSlots(o) == {s \in Slots : o[s].kind = "idle"}
HasFree(o, n) == Cardinality(FreeSlots(o)) >= n
Put(o, rec) ==
  IF FreeSlots(o) = {} THEN o
  ELSE LET s == CHOOSE x \in FreeSlots(o) : \A y \in FreeSlots(o) : x <= y
       IN [o EXCEPT ![s] = rec]

LoadOp(hh, f, m) ==
  [Idle EXCEPT !.kind = "load", !.pc = "load", !.hh = hh, !.filter = f, !.mf = m]
TimerLoadOp(hh, f, m) ==
  [Idle EXCEPT !.kind = "load", !.pc = "timer", !.hh = hh, !.filter = f, !.mf = m]

VARIABLES
  ver,            \* revision of the view
  mounted,        \* isMounted / mountedRef
  route,          \* "tasks" or "login"
  loading, error, \* useState loading / error
  householdId,    \* useState householdId
  ls,             \* localStorage homeflow_household_id
  tasks,          \* useState tasks
  filter, mf,     \* useState filter / selectedMemberFilter
  isSubmitting, formError,
  initGuard,      \* hasInitialized / hasLoadedData / initInFlightRef
  refreshCooling, \* Date.now() - lastRefreshTs.current < 3000
  refreshLock,    \* refreshLock.current
  listener,       \* filter values closed over by the focus / visibility / auth listeners (V1)
  storeUser,      \* useAuthStore().user (V3, V4)
  effectsRun,     \* the mount effects have run
  db, nextId,     \* backend tasks table and its id sequence
  ops,            \* in-flight continuations
  budget,         \* gestures used
  ev,             \* last step taken (history variable)
  \* --- the app-level auth synchronisation (useSupabaseAuth / App effect)
  aver,           \* which one: the hook or the App effect
  session,        \* user of the auth provider's current session
  authUser,       \* store.user
  authHousehold,  \* store.household
  authLoading,    \* useState loading of the hook / of App
  inst,           \* one record per run of the effect: its getSession() and closure
  abudget,        \* session changes used
  aev,            \* last step of the auth synchronisation (history variable)
  location,       \* the router's location
  onb             \* where the effect of the Onboarding page is

tvars == <<ver, mounted, route, loading, error, householdId, ls, tasks, filter,
           mf, isSubmitting, formError, initGuard, listener, refreshCooling, refreshLock,
           storeUser, effectsRun, db, nextId, ops, budget, ev>>

rvars == <<location, onb>>

avars == <<aver, session, authUser, authHousehold, authLoading, inst, abudget, aev,
           rvars>>

vars == <<tvars, avars>>

Ev(t, s) == [type |-> t, slot |-> s]

\* what the render shows: Tasks.tsx:480 / 493, part_003:1161 / 1173
View ==
  IF ~mounted \/ ~effectsRun THEN "None"
  ELSE IF loading THEN "Loading"
  ELSE IF error # NULL THEN "Errored"
  ELSE "Ready"

\* householdId || localStorage.getItem('homeflow_household_id')
SafeHouseholdId(hid, lsv) == IF hid # NULL THEN hid ELSE lsv

\* ------------------------------------------------------------------ Init
\* State after the first render: useState / useRef initial values.
TasksInit ==
  /\ ver \in Versions
  /\ ls \in {NULL} \cup Households
  /\ storeUser \in (IF ver = "V1" THEN {NULL} ELSE {NULL, "U1"})
  /\ mounted = (ver = "V4")
  /\ route = "tasks"
  /\ loading = TRUE
  /\ error = NULL
  /\ householdId = (IF ver = "V1" THEN ls ELSE NULL)
  /\ tasks = <<>>
  /\ filter = (IF ver = "V1" THEN "all" ELSE "pending")
  /\ mf = NULL
  /\ isSubmitting = FALSE
  /\ formError = NULL
  /\ initGuard = FALSE
  /\ refreshCooling = FALSE
  /\ refreshLock = FALSE
  /\ listener = [filter |-> filter, mf |-> mf]
  /\ effectsRun = FALSE
  /\ db \in InitialDbs
  /\ nextId = 4
  /\ ops = [s \in Slots |-> Idle]
  /\ budget = 0
  /\ ev = Ev("init", 0)

\* one run of the auth effect: pc is where its getSession() is, snap the
\* session it read, live the closure variable isMounted / mounted, sub the
\* onAuthStateChange subscription
NoInst == [pc |-> "none", snap |-> NULL, live |-> FALSE, sub |-> FALSE]

AEv(t, i) == [type |-> t, inst |-> i]

\* the auth synchronisation before its component is rendered
AuthIdle ==
  /\ aver = "hook"
  /\ session = NULL
  /\ authUser = NULL
  /\ authHousehold = NULL
  /\ authLoading = TRUE
  /\ inst = [i \in 1..MaxMounts |-> NoInst]
  /\ abudget = 0
  /\ aev = AEv("init", 0)
  /\ location = "/tasks"
  /\ onb = "none"

Init == TasksInit /\ AuthIdle


\* ------------------------------------------------------- mount and init
\* mutant of InitAllowed: the in-flight guard is not consulted
InitAllowed_Mutant(v, guard, user) ==
  IF v = "V3" THEN user # NULL ELSE TRUE

\* if (hasInitialized.current) return          (V1, Tasks.tsx:289)
\* if (!hasLoadedData.current && user)         (V3, part_003:89)
\* if (initInFlightRef.current) return         (V4, part_003:883)
InitAllowed(v, guard, user) ==
  IF v = "V3" THEN ~guard /\ user # NULL ELSE ~guard

\* the continuation init() leaves behind at its first await; it closes over
\* the filter values of the render that created it
InitOp(v, user, f, m) ==
  [Idle EXCEPT !.kind = "init",
               !.pc = (CASE v = "V1" -> "getUser"
                         [] v = "V3" -> "member"
                         [] OTHER -> IF user = NULL THEN "getSession" ELSE "getUser"),
               !.filter = f, !.mf = m]

\* the effect that calls init() / loadInitialData()
InitEffect(st) ==
  IF InitAllowed(ver, st.guard, storeUser)
  THEN [guard |-> TRUE, ops |-> Put(st.ops, InitOp(ver, storeUser, filter, mf))]
  ELSE st

\* the effect keyed on [filter, selectedMemberFilter] as it runs on mount,
\* where loading is still true: only V3 lets it through
MountFiltersEffect(st) ==
  IF ver = "V3" /\ st.guard /\ SafeHouseholdId(householdId, ls) # NULL
  THEN [st EXCEPT !.ops = Put(st.ops, LoadOp(SafeHouseholdId(householdId, ls), filter, mf))]
  ELSE st

MountEffects(st) == MountFiltersEffect(InitEffect(st))

\* React commits the first render and runs the mount effects; under
\* StrictMode (strict) it runs cleanup and the effects a second time.
Mount(strict) ==
  /\ ~effectsRun
  /\ LET st0 == [guard |-> initGuard, ops |-> ops]
         st1 == MountEffects(st0)
         st2 == IF strict THEN MountEffects(st1) ELSE st1
         wanted == (IF InitAllowed(ver, initGuard, storeUser) THEN 1 ELSE 0)
                   + (IF ver = "V3" /\ storeUser # NULL /\ ls # NULL
                      THEN (IF strict THEN 2 ELSE 1) ELSE 0)
     IN /\ wanted <= MaxOps
        /\ initGuard' = st2.guard
        /\ ops' = st2.ops
  /\ effectsRun' = TRUE
  /\ mounted' = TRUE
  /\ loading' = TRUE
  /\ error' = NULL
  /\ ev' = Ev(IF strict THEN "mount_strict" ELSE "mount", 0)
  /\ UNCHANGED avars
  /\ UNCHANGED <<ver, route, householdId, ls, tasks, filter, mf, isSubmitting,
                 formError, listener, refreshCooling, refreshLock, storeUser, db, nextId,
                 budget>>

\* App-level auth hook publishes the user in the store; the V3 effect keyed
\* on [user] then starts the initial load (part_003:88-93)
AppSetUser ==
  /\ ver \in {"V3", "V4"} /\ effectsRun /\ mounted /\ storeUser = NULL
  /\ budget < MaxGestures
  /\ HasFree(ops, 1)
  /\ storeUser' = "U1"
  /\ IF ver = "V3" /\ InitAllowed(ver, initGuard, "U1")
     THEN /\ initGuard' = TRUE
          /\ ops' = Put(ops, InitOp(ver, "U1", filter, mf))
     ELSE UNCHANGED <<initGuard, ops>>
  /\ budget' = budget + 1
  /\ ev' = Ev("app_set_user", 0)
  /\ UNCHANGED avars
  /\ UNCHANGED <<ver, mounted, route, loading, error, householdId, ls, tasks,
                 filter, mf, isSubmitting, formError, listener, refreshCooling,
                 refreshLock, effectsRun, db, nextId>>

\* outcomes of a call to the auth provider, of a read and of a write
AuthOutcomes == {"user", "none", "timeout"}
ReadOutcomes(v) ==
  CASE v = "V1" -> {"ok", "err", "jwt"}
    [] v = "V3" -> {"ok", "err"}
    [] OTHER -> {"ok", "err", "timeout"}

\* V4 init catch block, part_003:913-933
InitCatchMsg(step, out) ==
  IF out = "timeout"
  THEN CASE step \in {"getSession", "getUser"} -> "SESSION_TIMEOUT"
         [] step \in {"member", "members"} -> "MEMBER_TIMEOUT"
         [] OTHER -> "TASKS_TIMEOUT"
  ELSE "SYNC_ERROR"

\* V4: const sessionRes = await withTimeout(supabase.auth.getSession(), 8000, ...)
init_getSession(s, out) ==
  /\ ver = "V4" /\ ops[s].kind = "init" /\ ops[s].pc = "getSession"
  /\ out \in AuthOutcomes
  /\ IF out = "timeout"
     THEN /\ ops' = [ops EXCEPT ![s] = Idle]
          /\ initGuard' = FALSE
          /\ ls' = NULL
          /\ error' = IF mounted THEN InitCatchMsg("getSession", out) ELSE error
          /\ loading' = IF mounted THEN FALSE ELSE loading
          /\ UNCHANGED storeUser
     ELSE /\ ops' = [ops EXCEPT ![s].pc = "getUser"]
          /\ storeUser' = IF out = "user" THEN "U1" ELSE storeUser
          /\ UNCHANGED <<initGuard, ls, error, loading>>
  /\ ev' = Ev("init_getSession_" \o out, s)
  /\ UNCHANGED avars
  /\ UNCHANGED <<ver, mounted, route, householdId, tasks, filter, mf,
                 isSubmitting, formError, listener, refreshCooling, refreshLock,
                 effectsRun, db, nextId, budget>>

\* V1: const user = await getCurrentUserSafe()      (Tasks.tsx:185-190)
\* V4: const userRes = await withTimeout(getUser)   (part_003:899-908)
init_getUser(s, out) ==
  /\ ver \in {"V1", "V4"} /\ ops[s].kind = "init" /\ ops[s].pc = "getUser"
  /\ out \in AuthOutcomes
  /\ CASE out = "user" ->
            /\ ops' = [ops EXCEPT ![s].pc = "member"]
            /\ UNCHANGED <<initGuard, ls, error, loading, mounted, route>>
       [] out # "user" /\ ver = "V1" ->
            \* getCurrentUserSafe returned null: throw AUTH_INVALID, and the
            \* catch block awaits hardLogoutAndGoLogin()
            /\ ops' = [ops EXCEPT ![s].pc = "signOut"]
            /\ UNCHANGED <<initGuard, ls, error, loading, mounted, route>>
       [] out = "none" /\ ver = "V4" ->
            /\ ops' = [ops EXCEPT ![s] = Idle]
            /\ initGuard' = FALSE
            /\ loading' = IF mounted THEN FALSE ELSE loading
            /\ route' = "login"
            /\ mounted' = FALSE
            /\ UNCHANGED <<ls, error>>
       [] OTHER ->
            /\ ops' = [ops EXCEPT ![s] = Idle]
            /\ initGuard' = FALSE
            /\ ls' = NULL
            /\ error' = IF mounted THEN InitCatchMsg("getUser", out) ELSE error
            /\ loading' = IF mounted THEN FALSE ELSE loading
            /\ UNCHANGED <<mounted, route>>
  /\ ev' = Ev("init_getUser_" \o out, s)
  /\ UNCHANGED avars
  /\ UNCHANGED <<ver, householdId, tasks, filter, mf, isSubmitting, formError,
                 listener, refreshCooling, refreshLock, storeUser, effectsRun, db,
                 nextId, budget>>

\* the members row joined with its household has been read
init_member(s, out) ==
  /\ ops[s].kind = "init" /\ ops[s].pc = "member"
  /\ out \in (IF ver = "V4" THEN {"ok", "err", "timeout"} ELSE {"ok", "err"})
  /\ IF out = "ok"
     THEN /\ ops' = [ops EXCEPT ![s].pc = "members",
                                ![s].hh = MemberHousehold("U1")]
          /\ householdId' = IF ver = "V4" /\ ~mounted THEN householdId
                            ELSE MemberHousehold("U1")
          /\ ls' = MemberHousehold("U1")
          /\ UNCHANGED <<initGuard, error, loading>>
     ELSE /\ ops' = [ops EXCEPT ![s] = Idle]
          /\ CASE ver = "V1" ->
                   /\ error' = "MEMBER_FETCH_ERROR"
                   /\ loading' = FALSE
                   /\ UNCHANGED <<initGuard, ls>>
               [] ver = "V3" ->
                   /\ loading' = FALSE
                   /\ UNCHANGED <<initGuard, ls, error>>
               [] OTHER ->
                   /\ initGuard' = FALSE
                   /\ ls' = NULL
                   /\ error' = IF mounted THEN InitCatchMsg("member", out) ELSE error
                   /\ loading' = IF mounted THEN FALSE ELSE loading
          /\ UNCHANGED householdId
  \* the listener effects are keyed on [householdId]: they re-register, with
  \* the closures of the current render, when it changes (Tasks.tsx:327, 350)
  /\ listener' = IF householdId' # householdId
                 THEN [filter |-> filter, mf |-> mf] ELSE listener
  /\ ev' = Ev("init_member_" \o out, s)
  /\ UNCHANGED avars
  /\ UNCHANGED <<ver, mounted, route, tasks, filter, mf, isSubmitting,
                 formError, refreshCooling, refreshLock, storeUser, effectsRun,
                 db, nextId, budget>>

\* the roster has been read; V1 and V3 ignore its error, V4 throws it
init_members(s, out) ==
  /\ ops[s].kind = "init" /\ ops[s].pc = "members"
  /\ out \in (IF ver = "V4" THEN {"ok", "err", "timeout"} ELSE {"ok"})
  /\ IF out = "ok"
     THEN /\ ops' = [ops EXCEPT ![s].pc = "load"]
          /\ UNCHANGED <<initGuard, ls, error, loading>>
     ELSE /\ ops' = [ops EXCEPT ![s] = Idle]
          /\ initGuard' = FALSE
          /\ ls' = NULL
          /\ error' = IF mounted THEN InitCatchMsg("members", out) ELSE error
          /\ loading' = IF mounted THEN FALSE ELSE loading
  /\ ev' = Ev("init_members_" \o out, s)
  /\ UNCHANGED avars
  /\ UNCHANGED <<ver, mounted, route, householdId, tasks, filter, mf,
                 isSubmitting, formError, listener, refreshCooling, refreshLock,
                 storeUser, effectsRun, db, nextId, budget>>

\* mutant of LoadedTasks: the result of the read is dropped
LoadedTasks_Mutant(op, out) == tasks

\* setTasks((data || []) as Task[]) of a read that succeeded; V4 guards it
\* with mountedRef
LoadedTasks(op, out) ==
  IF out = "ok" /\ (ver = "V4" => mounted)
  THEN IF op.served THEN op.data ELSE QueryTasks(db, op.hh, op.filter, op.mf)
  ELSE tasks

\* the backend runs the select of a read that is in flight; the rows it
\* returns are those of that moment, whenever the response is handled
read_served(s) ==
  /\ ops[s].pc = "load" /\ ~ops[s].served
  /\ ops' = [ops EXCEPT ![s].served = TRUE,
                         ![s].data = QueryTasks(db, ops[s].hh, ops[s].filter, ops[s].mf)]
  /\ ev' = Ev("read_served", s)
  /\ UNCHANGED avars
  /\ UNCHANGED <<ver, mounted, route, loading, error, householdId, ls, tasks,
                 filter, mf, isSubmitting, formError, initGuard, listener,
                 refreshCooling, refreshLock, storeUser, effectsRun, db, nextId,
                 budget>>

\* V4 effect keyed on [filter, selectedMemberFilter, householdId, loading,
\* error, loadTasksForHousehold] (part_003:976-990), run after a commit in
\* which one of them changed
FiltersEffectV4(o, hid, ld, er, f, m) ==
  IF SafeHouseholdId(hid, ls) # NULL /\ ~ld /\ er = NULL
  THEN Put(o, LoadOp(SafeHouseholdId(hid, ls), f, m))
  ELSE o

\* await loadTasksForHousehold(hId) inside init, and what init does after it
init_load(s, out) ==
  /\ ops[s].kind = "init" /\ ops[s].pc = "load"
  /\ out \in ReadOutcomes(ver)
  /\ tasks' = LoadedTasks(ops[s], out)
  /\ CASE ver = "V1" ->
            /\ error' = IF out = "jwt" THEN "SESSION_EXPIRED" ELSE error
            /\ loading' = FALSE
            /\ ops' = [ops EXCEPT ![s] = Idle]
            /\ UNCHANGED <<initGuard, ls>>
       [] ver = "V3" ->
            /\ loading' = FALSE
            /\ ops' = [ops EXCEPT ![s] = Idle]
            /\ UNCHANGED <<initGuard, ls, error>>
       [] OTHER ->
            /\ initGuard' = FALSE
            /\ IF out = "ok"
               THEN /\ loading' = IF mounted THEN FALSE ELSE loading
                    /\ ops' = IF mounted
                              THEN FiltersEffectV4([ops EXCEPT ![s] = Idle],
                                                   householdId, FALSE, error, filter, mf)
                              ELSE [ops EXCEPT ![s] = Idle]
                    /\ UNCHANGED <<ls, error>>
               ELSE /\ ls' = NULL
                    /\ error' = IF mounted THEN InitCatchMsg("load", out) ELSE error
                    /\ loading' = IF mounted THEN FALSE ELSE loading
                    /\ ops' = [ops EXCEPT ![s] = Idle]
  /\ ev' = Ev("init_load_" \o out, s)
  /\ UNCHANGED avars
  /\ UNCHANGED <<ver, mounted, route, householdId, filter, mf, isSubmitting,
                 formError, listener, refreshCooling, refreshLock, storeUser, effectsRun,
                 db, nextId, budget>>

\* a read started on its own (filter effect, reloadTasks, delayed reload)
\* comes back; its errors are only logged, except V1's session-expired case
loadTasksForHousehold(s, out) ==
  /\ ops[s].kind = "load" /\ ops[s].pc = "load"
  /\ out \in ReadOutcomes(ver)
  /\ tasks' = LoadedTasks(ops[s], out)
  /\ error' = IF ver = "V1" /\ out = "jwt" THEN "SESSION_EXPIRED" ELSE error
  /\ ops' = [ops EXCEPT ![s] = Idle]
  /\ ev' = Ev("load_" \o out, s)
  /\ UNCHANGED avars
  /\ UNCHANGED <<ver, mounted, route, loading, householdId, ls, filter, mf,
                 isSubmitting, formError, initGuard, listener, refreshCooling,
                 refreshLock, storeUser, effectsRun, db, nextId, budget>>

\* setTimeout(() => loadTasksForHousehold(hId), 100) fires
loadTimer(s) ==
  /\ ops[s].kind = "load" /\ ops[s].pc = "timer"
  /\ ops' = [ops EXCEPT ![s].pc = "load"]
  /\ ev' = Ev("load_timer", s)
  /\ UNCHANGED avars
  /\ UNCHANGED <<ver, mounted, route, loading, error, householdId, ls, tasks,
                 filter, mf, isSubmitting, formError, initGuard, listener, refreshCooling,
                 refreshLock, storeUser, effectsRun, db, nextId, budget>>

\* ------------------------------------------------- logout and navigation
\* V1 hardLogoutAndGoLogin (Tasks.tsx:130-143), V3 handleLogout
\* (part_003:189-194), V4 logout (part_003:795-804): the part up to
\* await supabase.auth.signOut()
handleLogout ==
  /\ View \in {"Ready", "Errored"}
  /\ budget < MaxGestures /\ HasFree(ops, 1)
  /\ ops' = Put(ops, [Idle EXCEPT !.kind = "logout", !.pc = "signOut"])
  /\ ls' = IF ver = "V1" THEN ls ELSE NULL
  /\ budget' = budget + 1
  /\ ev' = Ev("logout", 0)
  /\ UNCHANGED avars
  /\ UNCHANGED <<ver, mounted, route, loading, error, householdId, tasks,
                 filter, mf, isSubmitting, formError, initGuard,
                 listener, refreshCooling, refreshLock, storeUser,
                 effectsRun, db, nextId>>

\* signOut() has settled: the rest of the logout routine, then the finally
\* block of the handler that awaited it
signOut_done(s, out) ==
  /\ ops[s].pc = "signOut"
  /\ out \in (IF ver = "V1" THEN {"ok"} ELSE {"ok", "err"})
  /\ ops' = [ops EXCEPT ![s] = Idle]
  /\ IF ver = "V1"
     THEN /\ ls' = NULL
          /\ route' = "login"
          /\ mounted' = FALSE
          /\ loading' = IF ops[s].kind = "init" THEN FALSE ELSE loading
          /\ refreshLock' = IF ops[s].kind = "refresh" THEN FALSE ELSE refreshLock
          /\ UNCHANGED <<storeUser, isSubmitting>>
     ELSE /\ IF out = "ok"
             THEN /\ storeUser' = NULL
                  /\ route' = "login"
                  /\ mounted' = FALSE
             ELSE UNCHANGED <<storeUser, route, mounted>>
          /\ isSubmitting' = IF ops[s].kind = "create" /\ mounted THEN FALSE
                             ELSE isSubmitting
          /\ UNCHANGED <<ls, loading, refreshLock>>
  /\ ev' = Ev("signOut_" \o out, s)
  /\ UNCHANGED avars
  /\ UNCHANGED <<ver, error, householdId, tasks, filter, mf, formError,
                 initGuard, listener, refreshCooling, effectsRun, db,
                 nextId, budget>>

\* the auth provider notifies that the session became null (SIGNED_OUT:
\* sign-out elsewhere, or a token that cannot be refreshed) while the view
\* is mounted:
\*   V1  the view's listener awaits hardLogoutAndGoLogin()  (Tasks.tsx:333-341)
\*   V4  the view's listener only calls setUser(null)       (part_003:961-965)
\*   V3  the view has no listener; the app-level one calls setUser(null)
\* and with user = null RequireAuth renders <Navigate to="/login">, which
\* unmounts the view (part_000:20-24)
onAuthSignedOut ==
  /\ mounted /\ effectsRun
  /\ budget < MaxGestures /\ HasFree(ops, 1)
  /\ IF ver = "V1"
     THEN /\ ops' = Put(ops, [Idle EXCEPT !.kind = "logout", !.pc = "signOut"])
          /\ UNCHANGED <<storeUser, route, mounted>>
     ELSE /\ storeUser' = NULL
          /\ route' = "login"
          /\ mounted' = FALSE
          /\ UNCHANGED ops
  /\ budget' = budget + 1
  /\ ev' = Ev("auth_signed_out", 0)
  /\ UNCHANGED avars
  /\ UNCHANGED <<ver, loading, error, householdId, ls, tasks, filter, mf,
                 isSubmitting, formError, initGuard, listener,
                 refreshCooling, refreshLock, effectsRun, db, nextId>>

\* the user leaves the page (e.g. the Dashboard button): the view is torn
\* down, its continuations stay in flight
Unmount ==
  /\ View # "None"
  /\ budget < MaxGestures
  /\ mounted' = FALSE
  /\ route' = "dashboard"
  /\ budget' = budget + 1
  /\ ev' = Ev("unmount", 0)
  /\ UNCHANGED avars
  /\ UNCHANGED <<ver, loading, error, householdId, ls, tasks, filter, mf,
                 isSubmitting, formError, initGuard, listener,
                 refreshCooling, refreshLock, storeUser, effectsRun,
                 db, nextId, ops>>

\* ------------------------------------------------------------------ retry
\* V1 error page button: setError(null); init()       (Tasks.tsx:503-506)
\* V4 retry(): clears the guard and calls init() from a 100 ms timer
\*                                                    (part_003:939-952)
retry ==
  /\ \/ ver = "V1" /\ View = "Errored"
     \/ ver = "V4" /\ View \in {"Ready", "Errored"}
  /\ budget < MaxGestures /\ HasFree(ops, 1)
  /\ error' = NULL
  /\ loading' = TRUE
  /\ IF ver = "V1"
     THEN /\ ops' = Put(ops, InitOp("V1", storeUser, filter, mf))
          /\ UNCHANGED initGuard
     ELSE /\ ops' = Put(ops, [Idle EXCEPT !.kind = "retry", !.pc = "timer",
                                          !.filter = filter, !.mf = mf])
          /\ initGuard' = FALSE
  /\ budget' = budget + 1
  /\ ev' = Ev("retry", 0)
  /\ UNCHANGED avars
  /\ UNCHANGED <<ver, mounted, route, householdId, ls, tasks, filter, mf,
                 isSubmitting, formError, listener, refreshCooling,
                 refreshLock, storeUser, effectsRun, db, nextId>>

\* V4: the retry timer fires and calls init()
retry_timer(s) ==
  /\ ops[s].kind = "retry" /\ ops[s].pc = "timer"
  /\ IF InitAllowed(ver, initGuard, storeUser)
     THEN /\ initGuard' = TRUE
          /\ ops' = [ops EXCEPT ![s] = InitOp(ver, storeUser, ops[s].filter, ops[s].mf)]
          /\ loading' = IF mounted THEN TRUE ELSE loading
          /\ error' = IF mounted THEN NULL ELSE error
     ELSE /\ ops' = [ops EXCEPT ![s] = Idle]
          /\ UNCHANGED <<initGuard, loading, error>>
  /\ ev' = Ev("retry_timer", s)
  /\ UNCHANGED avars
  /\ UNCHANGED <<ver, mounted, route, householdId, ls, tasks, filter, mf,
                 isSubmitting, formError, listener, refreshCooling,
                 refreshLock, storeUser, effectsRun, db, nextId,
                 budget>>

\* ---------------------------------------------------------------- filters
\* the effect keyed on the filters, as run after a filter change
FiltersEffect(o, f, m) ==
  LET hId == SafeHouseholdId(householdId, ls) IN
  IF ver = "V3"
  THEN IF initGuard /\ hId # NULL THEN Put(o, LoadOp(hId, f, m)) ELSE o
  ELSE IF hId # NULL /\ ~loading /\ error = NULL THEN Put(o, LoadOp(hId, f, m)) ELSE o

setFilter(f) ==
  /\ View = "Ready" /\ f \in Filters /\ f # filter
  /\ budget < MaxGestures /\ HasFree(ops, 1)
  /\ filter' = f
  /\ ops' = FiltersEffect(ops, f, mf)
  /\ budget' = budget + 1
  /\ ev' = Ev("setFilter", 0)
  /\ UNCHANGED avars
  /\ UNCHANGED <<ver, mounted, route, loading, error, householdId, ls,
                 tasks, mf, isSubmitting, formError, initGuard,
                 listener, refreshCooling, refreshLock, storeUser,
                 effectsRun, db, nextId>>

setSelectedMemberFilter(m) ==
  /\ View = "Ready" /\ m \in {NULL} \cup Users /\ m # mf
  /\ budget < MaxGestures /\ HasFree(ops, 1)
  /\ mf' = m
  /\ ops' = FiltersEffect(ops, filter, m)
  /\ budget' = budget + 1
  /\ ev' = Ev("setMemberFilter", 0)
  /\ UNCHANGED avars
  /\ UNCHANGED <<ver, mounted, route, loading, error, householdId, ls,
                 tasks, filter, isSubmitting, formError, initGuard,
                 listener, refreshCooling, refreshLock, storeUser,
                 effectsRun, db, nextId>>

\* ------------------------------------------------------ refresh (V1 only)
\* mutant of RefreshThrottled: the 3-second window is not consulted
RefreshThrottled_Mutant(cooling) == FALSE

\* if (now - lastRefreshTs.current < 3000) return
RefreshThrottled(cooling) == cooling

\* refreshIfNeeded up to its first await (Tasks.tsx:244-255); src says who
\* called it: a listener registered by an effect, or the button of the form
\* error box (Tasks.tsx:731-734), which uses the current render's closure
refreshIfNeeded(src) ==
  /\ ver = "V1" /\ mounted /\ effectsRun
  /\ src \in {"listener", "button"}
  /\ src = "button" => View = "Ready" /\ formError # NULL
  /\ budget < MaxGestures /\ HasFree(ops, 1)
  /\ IF RefreshThrottled(refreshCooling)
     THEN /\ UNCHANGED <<refreshCooling, refreshLock, ops>>
          /\ ev' = Ev("refresh_skipped", 0)
     ELSE /\ refreshCooling' = TRUE
          /\ IF refreshLock
             THEN /\ UNCHANGED <<refreshLock, ops>>
                  /\ ev' = Ev("refresh_locked", 0)
             ELSE /\ refreshLock' = TRUE
                  /\ ops' = Put(ops, [Idle EXCEPT
                               !.kind = "refresh", !.pc = "getUser",
                               !.hh = householdId,
                               !.filter = IF src = "button" THEN filter ELSE listener.filter,
                               !.mf = IF src = "button" THEN mf ELSE listener.mf])
                  /\ ev' = Ev("refresh", 0)
  /\ budget' = budget + 1
  /\ UNCHANGED avars
  /\ UNCHANGED <<ver, mounted, route, loading, error, householdId, ls,
                 tasks, filter, mf, isSubmitting, formError,
                 initGuard, listener, storeUser, effectsRun, db,
                 nextId>>

\* three seconds have passed since lastRefreshTs
Tick ==
  /\ refreshCooling
  /\ refreshCooling' = FALSE
  /\ ev' = Ev("tick", 0)
  /\ UNCHANGED avars
  /\ UNCHANGED <<ver, mounted, route, loading, error, householdId, ls,
                 tasks, filter, mf, isSubmitting, formError,
                 initGuard, listener, refreshLock, storeUser,
                 effectsRun, db, nextId, ops, budget>>

\* const user = await getCurrentUserSafe(4000) in refreshIfNeeded
refresh_getUser(s, out) ==
  /\ ops[s].kind = "refresh" /\ ops[s].pc = "getUser"
  /\ out \in AuthOutcomes
  /\ IF out = "user"
     THEN LET hId == SafeHouseholdId(ops[s].hh, ls) IN
          /\ IF hId # NULL
             THEN /\ ops' = [ops EXCEPT ![s].pc = "load", ![s].hh = hId]
                  /\ UNCHANGED refreshLock
             ELSE /\ ops' = [ops EXCEPT ![s] = Idle]
                  /\ refreshLock' = FALSE
          /\ UNCHANGED error
     ELSE /\ error' = "SESSION_EXPIRED"
          /\ ops' = [ops EXCEPT ![s].pc = "sleep"]
          /\ UNCHANGED refreshLock
  /\ ev' = Ev("refresh_getUser_" \o out, s)
  /\ UNCHANGED avars
  /\ UNCHANGED <<ver, mounted, route, loading, householdId, ls, tasks,
                 filter, mf, isSubmitting, formError, initGuard,
                 listener, refreshCooling, storeUser, effectsRun, db,
                 nextId, budget>>

\* await sleep(200) is over: hardLogoutAndGoLogin() starts
refresh_sleep(s) ==
  /\ ops[s].kind = "refresh" /\ ops[s].pc = "sleep"
  /\ ops' = [ops EXCEPT ![s].pc = "signOut"]
  /\ ev' = Ev("refresh_sleep", s)
  /\ UNCHANGED avars
  /\ UNCHANGED <<ver, mounted, route, loading, error, householdId, ls,
                 tasks, filter, mf, isSubmitting, formError,
                 initGuard, listener, refreshCooling, refreshLock,
                 storeUser, effectsRun, db, nextId, budget>>

\* a handler other than init awaited loadTasksForHousehold: the read comes
\* back and the handler runs to its end (its finally block)
awaited_load(s, out) ==
  /\ ops[s].kind \in {"refresh", "create", "toggle"} /\ ops[s].pc = "load"
  /\ out \in ReadOutcomes(ver)
  /\ tasks' = LoadedTasks(ops[s], out)
  /\ error' = IF ver = "V1" /\ out = "jwt" THEN "SESSION_EXPIRED" ELSE error
  /\ refreshLock' = IF ops[s].kind = "refresh" THEN FALSE ELSE refreshLock
  /\ isSubmitting' = IF ops[s].kind = "create" THEN FALSE ELSE isSubmitting
  /\ ops' = [ops EXCEPT ![s] = Idle]
  /\ ev' = Ev(ops[s].kind \o "_load_" \o out, s)
  /\ UNCHANGED avars
  /\ UNCHANGED <<ver, mounted, route, loading, householdId, ls, filter,
                 mf, formError, initGuard, listener, refreshCooling,
                 storeUser, effectsRun, db, nextId, budget>>

\* --------------------------------------------------------------- toggle
\* withTimeout races the request against a timer and cancels nothing
\* (part_003:738-752): when the timer wins, the handler goes on with its
\* catch block while the request it has sent is still with the backend
Abandoned(op, what) == [op EXCEPT !.kind = "abandoned", !.pc = what]

WriteOutcomes(v) ==
  CASE v = "V1" -> {"ok", "err", "jwt"}
    [] v = "V3" -> {"ok", "err"}
    [] OTHER -> {"ok", "err", "timeout"}

\* const newStatus = task.status === 'completed' ? 'pending' : 'completed'
NewStatus(t) == IF t.status = "completed" THEN "pending" ELSE "completed"
\* const completedAt = newStatus === 'completed' ? new Date().toISOString() : null
CompletedAt(st) == IF st = "completed" THEN "t1" ELSE NULL

\* the optimistic patch of one list element:
\*   V1, V3  { ...t, status: newStatus }
\*   V4      { ...t, status: newStatus, completed_at: completedAt }
OptimisticToggle(v, t, task) ==
  IF v = "V4"
  THEN [t EXCEPT !.status = NewStatus(task), !.completed_at = CompletedAt(NewStatus(task))]
  ELSE [t EXCEPT !.status = NewStatus(task)]

\* the rollback patch of one list element:
\*   V1  { ...t, status: oldStatus }      V4  task (the snapshot)
RollbackToggle(v, t, task) ==
  IF v = "V4" THEN task ELSE [t EXCEPT !.status = task.status]

\* mutant of MutationError: every failed write raises the global error
MutationError_Mutant(v, out, err) ==
  IF out # "ok" THEN "SESSION_EXPIRED" ELSE err

\* the global error flag after the catch block of a failed toggle or delete:
\*   V1  if (isJwtExpiredError(err)) setError('Votre session a expiré...')
\*   V3, V4  never touch it
MutationError(v, out, err) ==
  IF v = "V1" /\ out = "jwt" THEN "SESSION_EXPIRED" ELSE err

\* handleToggleComplete(task) up to the await of the update
handleToggleComplete(i) ==
  /\ View = "Ready" /\ i \in 1..Len(tasks)
  /\ budget < MaxGestures /\ HasFree(ops, 1)
  /\ LET task == tasks[i] IN
     /\ tasks' = MapTask(tasks, task.id,
                        [k \in 1..Len(tasks) |-> OptimisticToggle(ver, tasks[k], task)])
     /\ ops' = Put(ops, [Idle EXCEPT !.kind = "toggle", !.pc = "update",
                                     !.task = task, !.hh = householdId,
                                     !.filter = filter, !.mf = mf,
                                     !.prev = tasks])
  /\ budget' = budget + 1
  /\ ev' = Ev("toggle", 0)
  /\ UNCHANGED avars
  /\ UNCHANGED <<ver, mounted, route, loading, error, householdId, ls,
                 filter, mf, isSubmitting, formError, initGuard,
                 listener, refreshCooling, refreshLock, storeUser,
                 effectsRun, db, nextId>>

\* .update({ status: newStatus, completed_at: completedAt }).eq('id', task.id)
UpdateRow(rows, task) ==
  {IF r.id = task.id
   THEN [r EXCEPT !.status = NewStatus(task), !.completed_at = CompletedAt(NewStatus(task))]
   ELSE r : r \in rows}

\* the update has settled
toggle_update(s, out) ==
  /\ ops[s].kind = "toggle" /\ ops[s].pc = "update"
  /\ out \in WriteOutcomes(ver)
  /\ LET op == ops[s]
         hId == SafeHouseholdId(op.hh, ls)
     IN
     IF out = "ok"
     THEN /\ db' = UpdateRow(db, op.task)
          /\ ops' = IF op.filter # "all" /\ hId # NULL
                    THEN CASE ver = "V1" -> [ops EXCEPT ![s].pc = "load", ![s].hh = hId]
                           [] ver = "V3" -> [ops EXCEPT ![s] = LoadOp(hId, op.filter, op.mf)]
                           [] OTHER -> [ops EXCEPT ![s] = TimerLoadOp(hId, op.filter, op.mf)]
                    ELSE [ops EXCEPT ![s] = Idle]
          /\ UNCHANGED <<tasks, error>>
     ELSE /\ UNCHANGED db
          /\ CASE ver = "V1" ->
                   /\ tasks' = MapTask(tasks, op.task.id,
                          [k \in 1..Len(tasks) |-> RollbackToggle(ver, tasks[k], op.task)])
                   /\ error' = MutationError(ver, out, error)
                   /\ ops' = IF out = "jwt" THEN [ops EXCEPT ![s].pc = "signOut"]
                             ELSE [ops EXCEPT ![s] = Idle]
               [] ver = "V3" ->
                   \* "rollback" by reloadTasks(), not awaited
                   /\ ops' = IF hId # NULL
                             THEN [ops EXCEPT ![s] = LoadOp(hId, op.filter, op.mf)]
                             ELSE [ops EXCEPT ![s] = Idle]
                   /\ error' = MutationError(ver, out, error)
                   /\ UNCHANGED tasks
               [] OTHER ->
                   /\ tasks' = IF mounted
                               THEN MapTask(tasks, op.task.id,
                                 [k \in 1..Len(tasks) |-> RollbackToggle(ver, tasks[k], op.task)])
                               ELSE tasks
                   /\ ops' = IF out = "timeout"
                             THEN [ops EXCEPT ![s] = Abandoned(op, "lost_update")]
                             ELSE [ops EXCEPT ![s] = Idle]
                   /\ error' = MutationError(ver, out, error)
  /\ ev' = Ev("toggle_" \o out, s)
  /\ UNCHANGED avars
  /\ UNCHANGED <<ver, mounted, route, loading, householdId, ls, filter,
                 mf, isSubmitting, formError, initGuard, listener,
                 refreshCooling, refreshLock, storeUser, effectsRun,
                 nextId, budget>>

\* --------------------------------------------------------------- delete
\* handleDeleteTask(taskId) after confirm(), up to the await of the delete:
\* V1 and V4 first take the snapshot and drop the task from the list
OptimisticDelete(v, seq, id) == IF v = "V3" THEN seq ELSE RemoveTask(seq, id)

handleDeleteTask(i) ==
  /\ View = "Ready" /\ i \in 1..Len(tasks)
  /\ budget < MaxGestures /\ HasFree(ops, 1)
  /\ tasks' = OptimisticDelete(ver, tasks, tasks[i].id)
  /\ ops' = Put(ops, [Idle EXCEPT !.kind = "delete", !.pc = "delete",
                                  !.task = tasks[i], !.hh = householdId,
                                  !.filter = filter, !.mf = mf,
                                  !.prev = tasks])
  /\ budget' = budget + 1
  /\ ev' = Ev("delete", 0)
  /\ UNCHANGED avars
  /\ UNCHANGED <<ver, mounted, route, loading, error, householdId, ls,
                 filter, mf, isSubmitting, formError, initGuard,
                 listener, refreshCooling, refreshLock, storeUser,
                 effectsRun, db, nextId>>

\* mutant of RollbackDelete: the catch block forgets setTasks(previous)
RollbackDelete_Mutant(v, seq, prev) == seq

\* what the catch block of handleDeleteTask leaves in the list:
\* setTasks(previous) in V1 and V4; V3 never touched the list
RollbackDelete(v, seq, prev) == IF v = "V3" THEN seq ELSE prev

\* the delete has settled
delete_done(s, out) ==
  /\ ops[s].kind = "delete" /\ ops[s].pc = "delete"
  /\ out \in WriteOutcomes(ver)
  /\ LET op == ops[s]
         hId == SafeHouseholdId(op.hh, ls)
     IN
     IF out = "ok"
     THEN /\ db' = {r \in db : r.id # op.task.id}
          /\ tasks' = IF ver = "V3" THEN RemoveTask(tasks, op.task.id) ELSE tasks
          /\ ops' = [ops EXCEPT ![s] = Idle]
          /\ UNCHANGED error
     ELSE /\ UNCHANGED db
          /\ tasks' = IF ver = "V4" /\ ~mounted THEN tasks
                      ELSE RollbackDelete(ver, tasks, op.prev)
          /\ error' = MutationError(ver, out, error)
          /\ ops' = CASE ver = "V1" /\ out = "jwt" -> [ops EXCEPT ![s].pc = "signOut"]
                      [] ver = "V3" /\ hId # NULL ->
                           [ops EXCEPT ![s] = LoadOp(hId, op.filter, op.mf)]
                      [] ver = "V4" /\ out = "timeout" ->
                           [ops EXCEPT ![s] = Abandoned(op, "lost_delete")]
                      [] OTHER -> [ops EXCEPT ![s] = Idle]
  /\ ev' = Ev("delete_" \o out, s)
  /\ UNCHANGED avars
  /\ UNCHANGED <<ver, mounted, route, loading, householdId, ls, filter,
                 mf, isSubmitting, formError, initGuard, listener,
                 refreshCooling, refreshLock, storeUser, effectsRun,
                 nextId, budget>>

\* --------------------------------------------------------------- create
\* handleCreateTask up to its first await; asg is the form's assigned_to
handleCreateTask(asg) ==
  /\ View = "Ready" /\ asg \in {NULL} \cup Users
  /\ ~isSubmitting
  /\ nextId <= MaxId
  /\ budget < MaxGestures /\ HasFree(ops, 1)
  /\ LET hId == SafeHouseholdId(householdId, ls)
         op == [Idle EXCEPT !.kind = "create", !.hh = householdId,
                            !.filter = filter, !.mf = mf,
                            !.task = [NoTask EXCEPT !.assigned_to = asg]]
     IN
     IF ver = "V3"
     THEN \* no session check; user and household are tested synchronously
          IF storeUser = NULL \/ hId = NULL
          THEN /\ UNCHANGED <<ops, isSubmitting>>
               /\ ev' = Ev("create_rejected", 0)
          ELSE /\ ops' = Put(ops, [op EXCEPT !.pc = "insert", !.hh = hId])
               /\ isSubmitting' = TRUE
               /\ ev' = Ev("create", 0)
     ELSE /\ ops' = Put(ops, [op EXCEPT !.pc = "getUser"])
          /\ isSubmitting' = TRUE
          /\ ev' = Ev("create", 0)
  /\ formError' = IF ver = "V1" THEN NULL ELSE formError
  /\ budget' = budget + 1
  /\ UNCHANGED avars
  /\ UNCHANGED <<ver, mounted, route, loading, error, householdId, ls,
                 tasks, filter, mf, initGuard, listener,
                 refreshCooling, refreshLock, storeUser, effectsRun,
                 db, nextId>>

\* the session check of handleCreateTask has settled (V1, V4)
create_getUser(s, out) ==
  /\ ops[s].kind = "create" /\ ops[s].pc = "getUser"
  /\ out \in AuthOutcomes
  /\ LET hId == SafeHouseholdId(ops[s].hh, ls) IN
     CASE out = "user" /\ hId # NULL ->
            /\ ops' = [ops EXCEPT ![s].pc = "insert", ![s].hh = hId]
            /\ UNCHANGED <<isSubmitting, formError, ls>>
       [] out = "user" /\ hId = NULL ->
            /\ ops' = [ops EXCEPT ![s] = Idle]
            /\ formError' = IF ver = "V1" THEN "NO_HOUSEHOLD" ELSE formError
            /\ isSubmitting' = IF ver = "V4" /\ ~mounted THEN isSubmitting ELSE FALSE
            /\ UNCHANGED ls
       [] out = "none" /\ ver = "V4" ->
            \* await logout(): the cache key is removed before signOut()
            /\ ops' = [ops EXCEPT ![s].pc = "signOut"]
            /\ ls' = NULL
            /\ UNCHANGED <<isSubmitting, formError>>
       [] OTHER ->
            /\ ops' = [ops EXCEPT ![s] = Idle]
            /\ formError' = IF ver = "V1" THEN "SESSION_EXPIRED" ELSE formError
            /\ isSubmitting' = IF ver = "V4" /\ ~mounted THEN isSubmitting ELSE FALSE
            /\ UNCHANGED ls
  /\ ev' = Ev("create_getUser_" \o out, s)
  /\ UNCHANGED avars
  /\ UNCHANGED <<ver, mounted, route, loading, error, householdId, tasks,
                 filter, mf, initGuard, listener, refreshCooling,
                 refreshLock, storeUser, effectsRun, db, nextId,
                 budget>>

\* mutant of InsertedRow: the payload says in_progress
InsertedRow_Mutant(op, id) == Row(id, op.hh, "in_progress", NULL, op.task.assigned_to, id)

\* the row handleCreateTask submits, as the backend stores it
InsertedRow(op, id) == Row(id, op.hh, "pending", NULL, op.task.assigned_to, id)

\* V4: canShowInCurrentView (part_003:1059-1062)
CanShowInCurrentView(f, row) ==
  \/ f = "all"
  \/ f = "pending" /\ row.status # "completed"
  \/ f = "completed" /\ row.status = "completed"

\* the backend commits the insert; its response (.select().single(), the
\* stored row) is on its way to the handler
insert_served(s) ==
  /\ ops[s].kind = "create" /\ ops[s].pc = "insert" /\ ~ops[s].served
  /\ db' = db \cup {InsertedRow(ops[s], nextId)}
  /\ nextId' = nextId + 1
  /\ ops' = [ops EXCEPT ![s].served = TRUE, ![s].task = InsertedRow(ops[s], nextId)]
  /\ ev' = Ev("insert_served", s)
  /\ UNCHANGED avars
  /\ UNCHANGED <<ver, mounted, route, loading, error, householdId, ls, tasks,
                 filter, mf, isSubmitting, formError, initGuard, listener,
                 refreshCooling, refreshLock, storeUser, effectsRun, budget>>

\* the insert has settled; a response that was committed can still be lost
\* on its way back, or arrive after the deadline
create_insert(s, out) ==
  /\ ops[s].kind = "create" /\ ops[s].pc = "insert"
  /\ out \in WriteOutcomes(ver)
  /\ ops[s].served => out # "jwt"
  /\ LET op == ops[s]
         row == IF op.served THEN op.task ELSE InsertedRow(op, nextId)
     IN
     IF out = "ok"
     THEN /\ db' = IF op.served THEN db ELSE db \cup {row}
          /\ nextId' = IF op.served THEN nextId ELSE nextId + 1
          /\ IF ver = "V4"
             THEN /\ tasks' = IF mounted /\ CanShowInCurrentView(op.filter, row)
                              THEN <<row>> \o tasks ELSE tasks
                  /\ ops' = [ops EXCEPT ![s] = TimerLoadOp(op.hh, op.filter, op.mf)]
                  /\ isSubmitting' = IF mounted THEN FALSE ELSE isSubmitting
             ELSE \* the continuation keeps the row it has inserted
                  /\ ops' = [ops EXCEPT ![s].pc = "load", ![s].task = row,
                                         ![s].served = FALSE]
                  /\ UNCHANGED <<tasks, isSubmitting>>
          /\ UNCHANGED formError
     ELSE /\ ops' = IF out = "timeout" /\ ~op.served
                    THEN [ops EXCEPT ![s] = Abandoned(op, "lost_insert")]
                    ELSE [ops EXCEPT ![s] = Idle]
          /\ formError' = CASE ver = "V1" /\ out = "jwt" -> "SESSION_EXPIRED"
                            [] ver = "V1" -> "CREATE_ERROR"
                            [] OTHER -> formError
          /\ isSubmitting' = IF ver = "V4" /\ ~mounted THEN isSubmitting ELSE FALSE
          /\ UNCHANGED <<db, nextId, tasks>>
  /\ ev' = Ev("create_" \o out, s)
  /\ UNCHANGED avars
  /\ UNCHANGED <<ver, mounted, route, loading, error, householdId, ls,
                 filter, mf, initGuard, listener, refreshCooling,
                 refreshLock, storeUser, effectsRun, budget>>

\* ------------------------------------------------------- abandoned writes
\* the backend is done with a write whose handler gave up on the deadline:
\* it has either applied it (landed) or dropped it; nobody is listening
abandoned_write(s, landed) ==
  /\ ops[s].kind = "abandoned"
  /\ landed \in BOOLEAN
  /\ LET op == ops[s] IN
     /\ db' = IF ~landed THEN db
               ELSE CASE op.pc = "lost_update" -> UpdateRow(db, op.task)
                      [] op.pc = "lost_delete" -> {r \in db : r.id # op.task.id}
                      [] OTHER -> db \cup {InsertedRow(op, nextId)}
     /\ nextId' = IF landed /\ op.pc = "lost_insert" THEN nextId + 1 ELSE nextId
     /\ ev' = Ev(op.pc \o (IF landed THEN "_applied" ELSE "_dropped"), s)
  /\ ops' = [ops EXCEPT ![s] = Idle]
  /\ UNCHANGED avars
  /\ UNCHANGED <<ver, mounted, route, loading, error, householdId, ls, tasks,
                 filter, mf, isSubmitting, formError, initGuard, listener,
                 refreshCooling, refreshLock, storeUser, effectsRun, budget>>

\* ------------------------------------------------------------------ Next
Next ==
  \/ \E strict \in BOOLEAN : Mount(strict)
  \/ AppSetUser
  \/ \E s \in Slots, out \in AuthOutcomes : init_getSession(s, out)
  \/ \E s \in Slots, out \in AuthOutcomes : init_getUser(s, out)
  \/ \E s \in Slots, out \in {"ok", "err", "timeout"} : init_member(s, out)
  \/ \E s \in Slots, out \in {"ok", "err", "timeout"} : init_members(s, out)
  \/ \E s \in Slots, out \in {"ok", "err", "jwt", "timeout"} : init_load(s, out)
  \/ \E s \in Slots, out \in {"ok", "err", "jwt", "timeout"} : loadTasksForHousehold(s, out)
  \/ \E s \in Slots : read_served(s)
  \/ \E s \in Slots : loadTimer(s)
  \/ handleLogout
  \/ \E s \in Slots, out \in {"ok", "err"} : signOut_done(s, out)
  \/ onAuthSignedOut
  \/ Unmount
  \/ retry
  \/ \E s \in Slots : retry_timer(s)
  \/ \E f \in Filters : setFilter(f)
  \/ \E m \in {NULL} \cup Users : setSelectedMemberFilter(m)
  \/ \E src \in {"listener", "button"} : refreshIfNeeded(src)
  \/ Tick
  \/ \E s \in Slots, out \in AuthOutcomes : refresh_getUser(s, out)
  \/ \E s \in Slots : refresh_sleep(s)
  \/ \E s \in Slots, out \in {"ok", "err", "jwt", "timeout"} : awaited_load(s, out)
  \/ \E i \in 1..MaxId : handleToggleComplete(i)
  \/ \E s \in Slots, out \in {"ok", "err", "jwt", "timeout"} : toggle_update(s, out)
  \/ \E i \in 1..MaxId : handleDeleteTask(i)
  \/ \E s \in Slots, out \in {"ok", "err", "jwt", "timeout"} : delete_done(s, out)
  \/ \E asg \in {NULL} \cup Users : handleCreateTask(asg)
  \/ \E s \in Slots : insert_served(s)
  \/ \E s \in Slots, out \in AuthOutcomes : create_getUser(s, out)
  \/ \E s \in Slots, out \in {"ok", "err", "jwt", "timeout"} : create_insert(s, out)
  \/ \E s \in Slots, landed \in BOOLEAN : abandoned_write(s, landed)

Spec == Init /\ [][Next]_vars


\* ---------------------------------------------------------------- fairness
\* the awaits that the code bounds with a timer, which therefore settle:
\*   V1  getCurrentUserSafe (Promise.race with setTimeout), sleep(200)
\*   V4  everything wrapped in withTimeout, and the setTimeout callbacks
\*   V3  none
TimedPcs(v) ==
  CASE v = "V1" -> {"getUser", "sleep"}
    [] v = "V4" -> {"getSession", "getUser", "member", "members", "load",
                    "insert", "update", "delete", "timer"}
    [] OTHER -> {}

\* the continuation in slot s takes its next step, whatever the outcome
ContinuationStep(s) ==
  \/ \E out \in AuthOutcomes : init_getSession(s, out)
  \/ \E out \in AuthOutcomes : init_getUser(s, out)
  \/ \E out \in {"ok", "err", "timeout"} : init_member(s, out)
  \/ \E out \in {"ok", "err", "timeout"} : init_members(s, out)
  \/ \E out \in {"ok", "err", "jwt", "timeout"} : init_load(s, out)
  \/ \E out \in {"ok", "err", "jwt", "timeout"} : loadTasksForHousehold(s, out)
  \/ loadTimer(s)
  \/ retry_timer(s)
  \/ \E out \in AuthOutcomes : refresh_getUser(s, out)
  \/ refresh_sleep(s)
  \/ \E out \in {"ok", "err", "jwt", "timeout"} : awaited_load(s, out)
  \/ \E out \in {"ok", "err", "jwt", "timeout"} : toggle_update(s, out)
  \/ \E out \in {"ok", "err", "jwt", "timeout"} : delete_done(s, out)
  \/ \E out \in AuthOutcomes : create_getUser(s, out)
  \/ \E out \in {"ok", "err", "jwt", "timeout"} : create_insert(s, out)
  \/ \E out \in {"ok", "err"} : signOut_done(s, out)
  \/ \E landed \in BOOLEAN : abandoned_write(s, landed)

TimedStep ==
  \E s \in Slots : ops[s].pc \in TimedPcs(ver) /\ ContinuationStep(s)

\* React runs the mount effects, and every await that has a deadline settles;
\* an await without a deadline may never answer
LiveSpec ==
  /\ Init /\ [][Next]_vars
  /\ WF_vars(\E strict \in BOOLEAN : Mount(strict))
  /\ WF_vars(TimedStep)

\* the same, with a backend and an auth provider that answer every call
ResponsiveSpec ==
  /\ Init /\ [][Next]_vars
  /\ WF_vars(\E strict \in BOOLEAN : Mount(strict))
  /\ WF_vars(\E s \in Slots : ContinuationStep(s))


\* ================================================== auth synchronisation
\* The effect of useSupabaseAuth (src/src/hooks/useSupabaseAuth.ts:13-50;
\* src/unnamed/part_001:11-39 is the same without setHousehold) and the
\* effect of App (src/src/hooks/useSupabaseAuth.ts:67-82).
AuthVersions == {"hook", "app"}
AuthUsers == {"U1", "U2"}
Insts == 1..MaxMounts
\* the locations the app is opened at
Paths == {"/", "/login", "/onboarding", "/dashboard", "/tasks"}

LiveInsts == {i \in Insts : inst[i].live}
Subscribed == \E i \in Insts : inst[i].sub

\* the store and the location as the app starts. store.household is null in
\* a fresh page (Dashboard.tsx:74-76), and no source file at hand gives it
\* another value; H1 stands for a household written by a page that is not
\* among them
AuthStart ==
  /\ aver \in AuthVersions
  /\ session \in {NULL} \cup AuthUsers
  /\ authUser = NULL
  /\ authHousehold \in {NULL, "H1"}
  /\ authLoading = TRUE
  /\ inst = [i \in Insts |-> NoInst]
  /\ abudget = 0
  /\ aev = AEv("init", 0)
  /\ location \in Paths
  /\ onb = "none"

\* the Tasks view is not rendered while the auth synchronisation is studied
TasksIdle ==
  /\ TasksInit
  /\ ver = "V1" /\ ls = NULL /\ db = InitialDb("completed")

AuthInit == AuthStart /\ TasksIdle

\* the effect runs: isMounted = true, init() calls getSession(), and the
\* listener is subscribed
useSupabaseAuth_effect ==
  /\ LiveInsts = {}
  /\ \E i \in Insts :
       /\ inst[i].pc = "none"
       /\ \A j \in Insts : j < i => inst[j].pc # "none"
       /\ inst' = [inst EXCEPT ![i] = [pc |-> "pending", snap |-> NULL,
                                       live |-> TRUE, sub |-> TRUE]]
       /\ aev' = AEv("effect", i)
  /\ authLoading' = TRUE
  /\ UNCHANGED <<aver, session, authUser, authHousehold, abudget>>
  /\ UNCHANGED rvars
  /\ UNCHANGED tvars

\* the cleanup of the effect (unmount, or StrictMode between its two runs)
useSupabaseAuth_cleanup ==
  /\ \E i \in LiveInsts :
       /\ inst' = [inst EXCEPT ![i].live = FALSE,
                               ![i].sub = FALSE]
       /\ aev' = AEv("cleanup", i)
  /\ UNCHANGED <<aver, session, authUser, authHousehold, authLoading, abudget>>
  /\ UNCHANGED rvars
  /\ UNCHANGED tvars

\* the provider has read the session that getSession() will answer with
getSession_read(i) ==
  /\ inst[i].pc = "pending"
  /\ inst' = [inst EXCEPT ![i].pc = "read", ![i].snap = session]
  /\ aev' = AEv("getSession_read", i)
  /\ UNCHANGED <<aver, session, authUser, authHousehold, authLoading, abudget>>
  /\ UNCHANGED rvars
  /\ UNCHANGED tvars

\* store.user after getSession() has settled:
\*   hook  setUser(session?.user ?? null), or clearAuth / setUser(null) in catch
\*   app   setUser(session?.user ?? null) in then(); a rejection is not handled
GetSessionUser(live, out, snap, user) ==
  CASE out = "ok" -> snap
    [] out = "reject" /\ aver = "app" -> user
    [] OTHER -> NULL

\* getSession() has settled: out is a session, a returned error, or a
\* rejected promise
getSession_settle(i, out) ==
  /\ inst[i].pc = "read"
  /\ out \in {"ok", "err", "reject"}
  /\ inst' = [inst EXCEPT ![i].pc = "done_" \o out]
  /\ authUser' = GetSessionUser(inst[i].live, out, inst[i].snap, authUser)
  /\ authHousehold' = IF aver = "hook" /\ out # "ok" THEN NULL ELSE authHousehold
  /\ authLoading' = CASE aver = "hook" -> IF inst[i].live THEN FALSE ELSE authLoading
                      [] out = "reject" -> authLoading
                      [] OTHER -> FALSE
  /\ aev' = AEv("getSession_" \o out, i)
  /\ UNCHANGED <<aver, session, abudget>>
  /\ UNCHANGED rvars
  /\ UNCHANGED tvars

\* the provider's session changes to u (sign-in, sign-out, expiry) and the
\* subscribed listener, if any, is called with it
onAuthStateChange(u) ==
  /\ u \in {NULL} \cup AuthUsers /\ u # session
  /\ abudget < MaxAuthEvents
  /\ session' = u
  /\ IF Subscribed
     THEN /\ authUser' = u
          /\ authHousehold' = IF aver = "hook" /\ u = NULL THEN NULL ELSE authHousehold
     ELSE UNCHANGED <<authUser, authHousehold>>
  /\ abudget' = abudget + 1
  /\ aev' = AEv("auth_change", 0)
  /\ UNCHANGED <<aver, authLoading, inst>>
  /\ UNCHANGED rvars
  /\ UNCHANGED tvars

\* ------------------------------------------------------------ route guards
\* the routes behind RequireAuth (App.tsx:131-188); the older App
\* (useSupabaseAuth.ts:110-113) guards /dashboard only and has no other
LayoutPaths == {"/dashboard", "/tasks", "/members", "/taskflow", "/settings"}
ProtectedPaths(v) ==
  IF v = "hook" THEN {"/onboarding"} \cup LayoutPaths ELSE {"/dashboard"}

ToLogin == "Navigate:/login"
ToOnboarding == "Navigate:/onboarding"

\* mutant of AppRender: the global loader is not rendered first
AppRender_Mutant(path) ==
  IF authUser = NULL THEN ToLogin
  ELSE IF aver = "hook" /\ path \in LayoutPaths /\ authHousehold = NULL THEN ToOnboarding
  ELSE path

\* what App renders for a protected path:
\*   if (loading) return <loader>                       (App.tsx:89, :84)
\*   RequireAuth:      !user -> <Navigate to="/login">   (App.tsx:21-25)
\*   RequireHousehold: !household -> <Navigate to="/onboarding"> (App.tsx:28-32)
\*   older App: user ? <Dashboard /> : <Navigate to="/login">
AppRender(path) ==
  IF authLoading THEN "loader"
  ELSE IF authUser = NULL THEN ToLogin
  ELSE IF aver = "hook" /\ path \in LayoutPaths /\ authHousehold = NULL THEN ToOnboarding
  ELSE path

ToRoot == "Navigate:/"
ToDashboard == "Navigate:/dashboard"

\* the element App renders at a location: the route table of App.tsx:105-192
\* (the older App has the four routes of useSupabaseAuth.ts:98-113 and no
\* /onboarding, /tasks)
RouteElement(p) ==
  IF authLoading THEN "loader"
  ELSE IF aver = "hook"
  THEN CASE p = "/login" -> IF authUser # NULL THEN ToRoot ELSE p
         [] p = "/" -> IF authUser = NULL THEN ToLogin
                       ELSE IF authHousehold = NULL THEN ToOnboarding
                       ELSE ToDashboard
         [] OTHER -> AppRender(p)
  ELSE CASE p = "/" -> IF authUser # NULL THEN ToDashboard ELSE ToLogin
         [] p = "/login" -> IF authUser # NULL THEN ToDashboard ELSE p
         [] p = "/dashboard" -> AppRender(p)
         [] OTHER -> "none"

\* <Navigate to=... replace />
NavigateTo(el) ==
  CASE el = ToLogin -> "/login"
    [] el = ToOnboarding -> "/onboarding"
    [] el = ToRoot -> "/"
    [] el = ToDashboard -> "/dashboard"
    [] OTHER -> NULL

\* the <Navigate> element rendered at the current location takes effect; the
\* page that was shown is unmounted, a run of its effect that is in flight
\* goes on
Navigate ==
  /\ NavigateTo(RouteElement(location)) # NULL
  /\ location' = NavigateTo(RouteElement(location))
  /\ onb' = IF onb = "shown" THEN "none" ELSE onb
  /\ aev' = AEv("navigate", 0)
  /\ UNCHANGED <<aver, session, authUser, authHousehold, authLoading, inst, abudget>>
  /\ UNCHANGED tvars

\* Onboarding is rendered and its effect runs: run() starts with
\* await supabase.auth.getUser() (Onboarding.tsx:296-302)
Onboarding_effect ==
  /\ location = "/onboarding" /\ RouteElement(location) = location
  /\ onb = "none"
  /\ onb' = "getUser"
  /\ aev' = AEv("onboarding_effect", 0)
  /\ UNCHANGED <<aver, session, authUser, authHousehold, authLoading, inst, abudget,
                 location>>
  /\ UNCHANGED tvars

\* getUser() has answered (Onboarding.tsx:302-307): without a user the page
\* navigates to /login
Onboarding_getUser(out) ==
  /\ onb = "getUser"
  /\ out \in {"user", "none"}
  /\ out = "user" => session # NULL
  /\ IF out = "user"
     THEN onb' = "member" /\ UNCHANGED location
     ELSE onb' = "none" /\ location' = "/login"
  /\ aev' = AEv("onboarding_getUser_" \o out, 0)
  /\ UNCHANGED <<aver, session, authUser, authHousehold, authLoading, inst, abudget>>
  /\ UNCHANGED tvars

\* the member query has answered (Onboarding.tsx:310-328): a member goes to
\* /tasks, anything else shows the error text
Onboarding_member(out) ==
  /\ onb = "member"
  /\ out \in {"found", "none"}
  /\ IF out = "found"
     THEN onb' = "none" /\ location' = "/tasks"
     ELSE onb' = (IF location = "/onboarding" THEN "shown" ELSE "none") /\ UNCHANGED location
  /\ aev' = AEv("onboarding_member_" \o out, 0)
  /\ UNCHANGED <<aver, session, authUser, authHousehold, authLoading, inst, abudget>>
  /\ UNCHANGED tvars

AuthNext ==
  \/ useSupabaseAuth_effect
  \/ useSupabaseAuth_cleanup
  \/ \E i \in Insts : getSession_read(i)
  \/ \E i \in Insts, out \in {"ok", "err", "reject"} : getSession_settle(i, out)
  \/ \E u \in {NULL} \cup AuthUsers : onAuthStateChange(u)
  \/ Navigate
  \/ Onboarding_effect
  \/ \E out \in {"user", "none"} : Onboarding_getUser(out)
  \/ \E out \in {"found", "none"} : Onboarding_member(out)

AuthSpec == AuthInit /\ [][AuthNext]_vars

\* React runs the effects and renders, and the auth provider and the backend
\* answer every call
AuthResponsiveSpec ==
  /\ AuthInit /\ [][AuthNext]_vars
  /\ WF_vars(useSupabaseAuth_effect)
  /\ WF_vars(\E i \in Insts : getSession_read(i))
  /\ WF_vars(\E i \in Insts, out \in {"ok", "err", "reject"} : getSession_settle(i, out))
  /\ WF_vars(Navigate)
  /\ WF_vars(Onboarding_effect)
  /\ WF_vars(\E out \in {"user", "none"} : Onboarding_getUser(out))
  /\ WF_vars(\E out \in {"found", "none"} : Onboarding_member(out))


\* ================================================================ claims
NumInits == Cardinality({s \in Slots : ops[s].kind = "init"})

WriteFailed(t) ==
  t \in {"toggle_err", "toggle_jwt", "toggle_timeout",
         "delete_err", "delete_jwt", "delete_timeout",
         "create_err", "create_jwt", "create_timeout"}

AfterOptimisticToggle(op) ==
  MapTask(op.prev, op.task.id,
          [k \in 1..Len(op.prev) |-> OptimisticToggle(ver, op.prev[k], op.task)])

\* C2: when the update of a toggle fails, and nothing else has changed the
\* list since the call, the list after the handler has settled equals the
\* list immediately before the call.
C2_Original ==
  [][(/\ ev'.type \in {"toggle_err", "toggle_jwt", "toggle_timeout"}
      /\ mounted
      /\ tasks = AfterOptimisticToggle(ops[ev'.slot]))
     => tasks' = ops[ev'.slot].prev]_vars

\* C3: when the backend delete fails while the view is mounted, the list
\* after the handler has settled is the list of before the call: it contains
\* the task again, with the same length and order.  V1 and V4 put the
\* snapshot back; V3 removed nothing, so there it is the list the handler
\* found, provided no other operation replaced it in between.
C3_DeleteRollback ==
  [][(/\ ev'.type \in {"delete_err", "delete_jwt", "delete_timeout"}
      /\ mounted
      /\ (ver = "V3" => tasks = ops[ev'.slot].prev))
     => LET op == ops[ev'.slot] IN
        /\ op.task.id \in Ids(tasks')
        /\ Len(tasks') = Len(op.prev)
        /\ \A i \in 1..Len(op.prev) : tasks'[i] = op.prev[i]]_vars

\* a delete of the 2nd of two listed tasks has failed and both are listed
C3_Witness ==
  /\ ev.type \in {"delete_err", "delete_timeout"}
  /\ ver \in {"V1", "V4"}
  /\ mounted
  /\ Len(tasks) = 2
  /\ \A s \in Slots : ops[s].kind = "idle"

\* C4: the step that invokes handleDeleteTask (after confirm) leaves the
\* task out of the list while its delete is in flight.
C4_Original ==
  [][ev'.type = "delete" =>
       \E s \in Slots : /\ ops'[s].kind = "delete"
                        /\ ops[s].kind = "idle"
                        /\ ops'[s].task.id \notin Ids(tasks')]_vars

\* C5: every task of the in-memory list is completed iff its completed_at
\* is set.
C5_Original ==
  \A i \in 1..Len(tasks) :
    (tasks[i].status = "completed") <=> (tasks[i].completed_at # NULL)

\* the statuses a filter value selects, in the words of the claim
SelectedStatuses(f) ==
  CASE f = "completed" -> {"completed"}
    [] f = "pending" -> {"pending", "in_progress"}
    [] f = "all" -> Statuses

LoadApplied(t) ==
  t \in {"load_ok", "init_load_ok", "refresh_load_ok", "create_load_ok",
         "toggle_load_ok"}

\* the list is what the query of read op selects from rows
FilterScoped(list, rows, op) ==
  /\ \A i \in 1..Len(list) : list[i] \in rows
  /\ Ids(list) = {r.id : r \in {x \in rows :
                       /\ x.household_id = op.hh
                       /\ x.status \in SelectedStatuses(op.filter)
                       /\ (op.mf = NULL \/ x.assigned_to = op.mf)}}
  /\ \A i, j \in 1..Len(list) :
       i < j => list[i].created_at > list[j].created_at

\* C6: the list a successful loadTasksForHousehold call puts in memory holds
\* exactly the backend rows of the target household whose status is selected
\* by the filter the call was made with and, when a member filter is set,
\* whose assigned_to is that member; each row once, by created_at descending.
\* The backend rows are those of the moment the backend ran the query.
C6_FilterScoping ==
  [][/\ ev'.type = "read_served" =>
          FilterScoped(ops'[ev'.slot].data, db, ops[ev'.slot])
     /\ (LoadApplied(ev'.type) /\ (ver = "V4" => mounted)) =>
          LET op == ops[ev'.slot] IN
          IF op.served THEN tasks' = op.data
          ELSE FilterScoped(tasks', db, op)]_vars

\* a read made with filter = pending has put an in_progress task in the list
C6_Witness ==
  /\ LoadApplied(ev.type)
  /\ filter = "pending"
  /\ \E i \in 1..Len(tasks) : tasks[i].status = "in_progress"
  /\ \E i \in 1..Len(tasks) : tasks[i].status = "pending"

\* C7: at most one initialisation sequence is in flight at any time.
C7_SingleInit == NumInits <= 1

\* the mount effects ran twice in a row (second trigger while the first
\* init is in flight) and exactly one init is running
C7_Witness ==
  /\ ev.type = "mount_strict"
  /\ NumInits = 1

SessionCheckTimedOut(t) ==
  t \in {"init_getSession_timeout", "init_getUser_timeout",
         "refresh_getUser_timeout"}

\* C8: a session check that timed out, in init or in a refresh, surfaces a
\* timeout error with the view still on the tasks route; it starts no
\* sign-out and no redirect to /login.
C8_Original ==
  [][(SessionCheckTimedOut(ev'.type) /\ mounted) =>
       /\ error' = "SESSION_TIMEOUT"
       /\ route' = "tasks"
       /\ ops'[ev'.slot].pc \notin {"sleep", "signOut"}]_vars

\* C9: every listed task belongs to the household resolved for the session,
\* and every task read or insert in flight targets that household.
C9_Original ==
  /\ \A i \in 1..Len(tasks) : tasks[i].household_id = MemberHousehold("U1")
  /\ \A s \in Slots :
       (\/ ops[s].kind = "load"
        \/ ops[s].pc \in {"load", "insert"})
       => ops[s].hh = MemberHousehold("U1")

\* C10: a read started by the filters effect (on mount or on a change of
\* filter / member filter) is issued only when no initial load is in flight
\* and the household has been resolved.
C10_Original ==
  [][(/\ ev'.type \in {"mount", "mount_strict", "setFilter", "setMemberFilter"}
      /\ \E s \in Slots : ops'[s].kind = "load" /\ ops[s].kind = "idle")
     => /\ NumInits' = 0
        /\ ~loading'
        /\ householdId' = MemberHousehold("U1")]_vars

\* C11: a create, toggle or delete invoked while neither the in-memory
\* household id nor the cached one is available starts no network call.
C11_Original ==
  [][(/\ ev'.type \in {"create", "create_rejected", "toggle", "delete"}
      /\ SafeHouseholdId(householdId, ls) = NULL)
     => ops' = ops]_vars

\* the writes of one operation that are in flight
WritesInFlight(kind, pcs) ==
  {s \in Slots : ops[s].kind = kind /\ ops[s].pc \in pcs}

\* C12: at most one create is in flight, and at most one toggle write and at
\* most one delete write per task.
C12_Original ==
  /\ Cardinality(WritesInFlight("create", {"getUser", "insert"})) <= 1
  /\ \A s1, s2 \in WritesInFlight("toggle", {"update"}) :
       ops[s1].task.id = ops[s2].task.id => s1 = s2
  /\ \A s1, s2 \in WritesInFlight("delete", {"delete"}) :
       ops[s1].task.id = ops[s2].task.id => s1 = s2

RefreshTriggered(t) == t \in {"refresh", "refresh_skipped", "refresh_locked"}

\* C13: a call of refreshIfNeeded made less than 3 seconds after the last
\* accepted one starts no continuation (no session check, no reload), and
\* every call leaves the 3-second window open behind it, so at most one
\* refresh starts per window.
C13_RefreshThrottle ==
  [][RefreshTriggered(ev'.type) =>
       /\ refreshCooling => (ops' = ops /\ refreshLock' = refreshLock)
       /\ refreshCooling'
       /\ ev'.type = "refresh" => ~refreshCooling]_vars

\* a trigger arrived inside the window after the previous refresh had
\* finished: only the throttle stopped it
C13_Witness ==
  /\ ev.type = "refresh_skipped"
  /\ ~refreshLock
  /\ \A s \in Slots : ops[s].kind # "refresh"
  /\ mounted

\* C14: once the view has been torn down, the step of a continuation that
\* was left in flight changes neither the component state nor the route, the
\* store user or the cached household id.
C14_Original ==
  [][(effectsRun /\ ~mounted /\ ev'.slot # 0) =>
       UNCHANGED <<loading, error, householdId, tasks, isSubmitting, formError,
                   route, storeUser, ls>>]_vars

GetSessionSettled(t) == t \in {"getSession_ok", "getSession_err", "getSession_reject"}

\* C15: the cleanup of the auth effect leaves no subscription behind, and a
\* getSession() that settles after the cleanup changes neither the stored
\* user or household nor the loading flag.
C15_Original ==
  [][/\ \A i \in Insts : ~inst'[i].live => ~inst'[i].sub
     /\ (GetSessionSettled(aev'.type) /\ ~inst[aev'.inst].live)
          => UNCHANGED <<authUser, authHousehold, authLoading>>]_vars

\* C18: once the initial getSession() of the running effect has answered
\* with a session and every notification has been delivered, the stored
\* user is the user of the provider's current session.
C18_Original ==
  \A i \in LiveInsts : inst[i].pc = "done_ok" => authUser = session

\* C16: whenever the Tasks view shows its loading screen, it eventually
\* shows the list or the error page (or the app has left the view).
C16_Original ==
  (View = "Loading") ~> (View \in {"Ready", "Errored"} \/ ~mounted)

\* C17: after the provider has notified a null session to the mounted view,
\* the view is eventually torn down with the cached household id removed
\* and the app on the sign-in page.
C17_Original ==
  (ev.type = "auth_signed_out") ~> (~mounted /\ route = "login" /\ ls = NULL)

InitFailed(t) ==
  t \in {"init_getSession_timeout", "init_getUser_timeout",
         "init_member_err", "init_member_timeout",
         "init_members_err", "init_members_timeout",
         "init_load_err", "init_load_jwt", "init_load_timeout"}

\* C19: when the first initial load of a mounted view fails, in a revision
\* whose in-memory household starts empty (V3, V4), memory is as it was
\* before the attempt: no household and no tasks.
C19_Original ==
  [][(InitFailed(ev'.type) /\ mounted /\ budget = 0 /\ ver # "V1") =>
       (householdId' = NULL /\ tasks' = <<>>)]_vars

\* C20: the step on which the session check, the member fetch, the members
\* list or the initial task fetch of init fails leaves the mounted view in
\* the Errored state: error set, loading over.
C20_Original ==
  [][(InitFailed(ev'.type) /\ mounted) => (error' # NULL /\ ~loading')]_vars

\* the step on which a create that succeeded puts its result in the list:
\* V4 prepends the returned row when the insert settles, V1 and V3 reload
CreateApplied(t) ==
  \/ ver = "V4" /\ t = "create_ok"
  \/ ver # "V4" /\ t = "create_load_ok"

RowsOf(rows, hh) == {r \in rows : r.household_id = hh}

\* the row the create in slot s has inserted, on the step that applies it
CreatedRow(s) ==
  IF ver = "V4" /\ ~ops[s].served THEN InsertedRow(ops[s], nextId) ELSE ops[s].task

\* the rows of household hh the step that applies the create in slot s works
\* from: those the backend returned to its reload, or the stored ones
RowsSeen(s, hh) ==
  IF ver # "V4" /\ ops[s].served
  THEN {ops[s].data[k] : k \in 1..Len(ops[s].data)}
  ELSE RowsOf(db', hh)

ToggledOut(i) ==
  /\ ev.type = "toggle_ok" /\ mounted
  /\ ops[ev.slot].pc \in {"load", "timer"} /\ ops[ev.slot].filter = "pending"
  /\ \E k \in 1..Len(tasks) : tasks[k].id = i /\ tasks[k].status = "completed"
  /\ \E r \in db : r.id = i /\ r.status = "completed"

ReconciliationFailed(t) ==
  t \in {"toggle_load_err", "toggle_load_jwt", "load_err", "load_timeout"}

C23_Original ==
  [][(/\ ev'.type \in {"toggle_err", "toggle_jwt", "toggle_timeout",
                       "delete_err", "delete_jwt", "delete_timeout"}
      /\ mounted)
     => (formError' # NULL /\ error' = NULL /\ ~loading')]_vars

GetSessionHasSettled ==
  \E i \in Insts : inst[i].pc \in {"done_ok", "done_err", "done_reject"}

\* C24: a protected route renders its page only with a stored user; once
\* the auth loading flag is down, a null stored user on a protected route
\* renders the redirect to /login; and no redirect is rendered before a
\* getSession() of the app has settled.
C24_ProtectedRoutes ==
  \A p \in ProtectedPaths(aver) :
    /\ AppRender(p) = p => authUser # NULL
    /\ (~authLoading /\ authUser = NULL) => AppRender(p) = ToLogin
    /\ AppRender(p) \in {ToLogin, ToOnboarding} => GetSessionHasSettled

\* the session ended after the app had loaded with a user: the dashboard
\* route now renders the redirect to /login
C24_Witness ==
  /\ aev.type = "auth_change" /\ session = NULL
  /\ ~authLoading /\ authUser = NULL
  /\ \E i \in LiveInsts : inst[i].pc = "done_ok" /\ inst[i].snap # NULL
  /\ AppRender("/dashboard") = ToLogin

\* the row matches the status filter f and the member filter m
MatchesActiveFilter(row, f, m) ==
  /\ row.status \in SelectedStatuses(f)
  /\ (m # NULL => row.assigned_to = m)

\* C25: when the insert of a create succeeds (V4, view mounted), the
\* returned row is put at the head of the list if it matches the status
\* filter and the member filter that were active when create was called
\* and still are, and the list is left alone if it does not.
C25_Original ==
  [][(/\ ev'.type = "create_ok" /\ ver = "V4" /\ mounted
      /\ ops[ev'.slot].filter = filter /\ ops[ev'.slot].mf = mf) =>
       LET row == InsertedRow(ops[ev'.slot], nextId) IN
       tasks' = IF MatchesActiveFilter(row, filter, mf)
                THEN <<row>> \o tasks ELSE tasks]_vars

\* a read issued by the filters effect, by a refresh or by the reload that
\* follows a mutation has failed
ReadFailed(t) ==
  t \in {"load_err", "load_jwt", "load_timeout",
         "refresh_load_err", "refresh_load_jwt", "refresh_load_timeout",
         "create_load_err", "create_load_jwt", "create_load_timeout",
         "toggle_load_err", "toggle_load_jwt", "toggle_load_timeout"}

\* C26: the step on which such a read fails, with the view mounted, leaves
\* the in-memory list as it was and leaves the error state set.
C26_Original ==
  [][(ReadFailed(ev'.type) /\ mounted) => (tasks' = tasks /\ error' # NULL)]_vars

CreateFailed(t) ==
  t \in {"create_err", "create_jwt", "create_timeout",
         "create_getUser_none", "create_getUser_timeout"}

\* C27: whenever the submit control is disabled by a create, it is
\* eventually enabled again (or the view has gone), even with a backend
\* that stops answering; and the step on which a create fails leaves an
\* inline form error set.
C27_Original ==
  /\ isSubmitting ~> (~isSubmitting \/ ~mounted)
  /\ [][(CreateFailed(ev'.type) /\ mounted) => formError' # NULL]_vars

\* C28: a step that issues a task insert whose household id was taken from
\* the localStorage cache (the in-memory id being empty) is the step on
\* which the session check of that same create has answered with a user.
C28_Original ==
  [][(\E s \in Slots : /\ ops'[s].pc = "insert" /\ ops[s].pc # "insert"
                       /\ householdId = NULL /\ ops'[s].hh = ls)
     => ev'.type = "create_getUser_user"]_vars

\* C29: when the update of a toggle is confirmed, the stored row has
\* completed_at set exactly when its status is completed, and the status a
\* second toggle of that row would write is the status the task had before
\* the first one.
C29_Original ==
  [][ev'.type = "toggle_ok" =>
       \A r \in db' : r.id = ops[ev'.slot].task.id =>
         /\ (r.completed_at # NULL) <=> (r.status = "completed")
         /\ NewStatus(r) = ops[ev'.slot].task.status]_vars

\* C30: when the list in memory is the (non-empty) result of the read for
\* the filters now selected, the last read in flight, when it settles, does
\* not replace it by a list for other filters.
C30_Original ==
  [][(/\ ev'.type = "load_ok" /\ mounted
      /\ \A s \in Slots : ops'[s].pc \notin {"load", "timer"}
      /\ Len(tasks) > 0
      /\ tasks = QueryTasks(db, SafeHouseholdId(householdId, ls), filter, mf))
     => tasks' = tasks]_vars

\* C31: the step on which a delete fails (view mounted) puts back the task
\* that delete had removed and nothing else: every element the list held
\* just before the rollback is still there unchanged, and no other task
\* comes back.
C31_Original ==
  [][(ev'.type \in {"delete_err", "delete_jwt", "delete_timeout"} /\ mounted) =>
       /\ \A k \in 1..Len(tasks) : \E j \in 1..Len(tasks') : tasks'[j] = tasks[k]
       /\ Ids(tasks') \subseteq Ids(tasks) \cup {ops[ev'.slot].task.id}]_vars

LateWrite(t) ==
  t \in {"lost_update_applied", "lost_update_dropped",
         "lost_delete_applied", "lost_delete_dropped",
         "lost_insert_applied", "lost_insert_dropped"}

\* C32: when the backend is done with a write that the view reported as
\* failed on its deadline and rolled back, the task of that write is listed
\* only if the backend has it, with the status the backend has, and a
\* create reported as failed has added no row.
C32_Original ==
  [][(LateWrite(ev'.type) /\ mounted) =>
       LET op == ops[ev'.slot] IN
       /\ op.pc = "lost_insert" => db' = db
       /\ \A k \in 1..Len(tasks') :
            (op.pc # "lost_insert" /\ tasks'[k].id = op.task.id) =>
              \E r \in db' : r.id = op.task.id /\ r.status = tasks'[k].status]_vars

\* no task is listed twice
NoDuplicateIds ==
  \A i, j \in 1..Len(tasks) : i < j => tasks[i].id # tasks[j].id

\* the head of the list is a task the view has created and the backend stores
ConfirmedInsert(row) ==
  row.id >= 4 /\ row \in db

\* C33: in the revision that inserts a created task at the head of the list
\* and reloads 100 ms later, no task id is ever listed twice, and a reload
\* made with the active filters never removes from the list a created task
\* that the backend stores and that matches those filters.
C33_Original ==
  /\ [](ver = "V4" => NoDuplicateIds)
  /\ [][(/\ ver = "V4" /\ mounted
         /\ ev'.type = "load_ok"
         /\ ops[ev'.slot].filter = filter /\ ops[ev'.slot].mf = mf) =>
          \A k \in 1..Len(tasks) :
            (/\ ConfirmedInsert(tasks[k])
             /\ tasks[k].household_id = ops[ev'.slot].hh
             /\ MatchesActiveFilter(tasks[k], filter, mf)) =>
              tasks[k].id \in Ids(tasks')]_vars

\* signOut() has resolved and the logout routine has run to its end
LogoutCompleted == ev.type = "signOut_ok"

\* C34: once a logout has completed, the cached household id stays absent
\* from localStorage (the model has no sign-in after a logout): an init or a
\* refresh that was in flight does not write it back.
C34_Original == [](LogoutCompleted => [](ls = NULL))

\* the Tasks or the Dashboard page is what App renders
StableView ==
  location \in {"/tasks", "/dashboard"} /\ RouteElement(location) = location

\* C35: with the guarded route table, a signed-in user who has a member
\* record ends up on the Tasks or the Dashboard page and stays there, and the
\* Onboarding page redirects to /tasks only finitely often (no endless
\* /onboarding -> /tasks -> /onboarding cycle). Runs in which the app is
\* unmounted, the user is signed out or Onboarding has shown its error text
\* are not the claim's case.
C35_Original ==
  /\ <>[]((/\ aver = "hook" /\ LiveInsts # {}
           /\ session # NULL /\ authUser # NULL
           /\ onb # "shown") => StableView)
  /\ <>[](aev.type # "onboarding_member_found")

\* bodies of refreshIfNeeded past the lock test
RefreshBodies == {s \in Slots : ops[s].kind = "refresh"}

\* C36: at most one body of refreshIfNeeded runs at a time, and a held
\* refreshLock is released again while the view stays mounted, also when the
\* backend does not answer, so that a later refresh is not turned away forever.
C36_Original ==
  /\ [](Cardinality(RefreshBodies) <= 1)
  /\ (refreshLock /\ mounted) ~> (~refreshLock \/ ~mounted)

====
